---- MODULE Spec2Model ----
(***************************************************************************)
(* A model of libclgeom: the ContextManager / ComputeContext layer over    *)
(* the native OpenCL API (src/src/context.rs), kernel source lookup and    *)
(* program build (src/src/compile.rs), the error wrapper                   *)
(* (src/src/errors.rs) and the C interface (src/src/ffi.rs).               *)
(*                                                                         *)
(* Rust indices (platform_id, device_id, Vec::get) are 0-based; TLA+       *)
(* sequences are 1-based, so Get(s, i) reads s[i + 1].                     *)
(***************************************************************************)
EXTENDS Integers, Sequences, FiniteSets, TLC

\* ------------------------------------------------------------------ bounds
MaxPlatforms == 2
MaxDevices == 2
MaxSessions == 1

\* ------------------------------------------------------- the native world
\* Outcomes of a native OpenCL call that returns nothing the model reads.
None == "None"

\* The native errors the environment may report: an error without an API
\* status (a build failure carrying the compiler's log) and one with a status.
OclErrors ==
    { [api_status |-> None, cause |-> None,
       display |-> <<"BUILD LOG line 1", "BUILD LOG line 2">>],
      [api_status |-> "CL_OUT_OF_RESOURCES", cause |-> "ApiFail",
       display |-> <<"CL_OUT_OF_RESOURCES">>] }


DeviceTypes == {"GPU", "CPU"}

SeqsUpTo(S, n) == UNION { [1..k -> S] : k \in 0..n }

\* ------------------------------------------------------------ Rust values
Ok(v) == [ok |-> TRUE, val |-> v]
Err(e) == [ok |-> FALSE, err |-> e]

\* What a native call answers: Ok of its value, or Err of a native error.
NativeOutcomes == {Ok("done")} \cup { Err(e) : e \in OclErrors }

\* What the two native calls of a context creation answer: the queue is only
\* asked for once the context was built.
CreateOutcomes ==
    { <<Ok("done"), Ok("done")>> }
    \cup { <<Err(e), Ok("done")>> : e \in OclErrors }
    \cup { <<Ok("done"), Err(e)>> : e \in OclErrors }

\* A platform as the driver reports it: its devices (all types) and what
\* listing its devices answers.
NativePlatforms ==
    { [devices |-> ds, listing |-> Ok("done")] : ds \in SeqsUpTo(DeviceTypes, MaxDevices) }
    \cup { [devices |-> <<>>, listing |-> Err(e)] : e \in OclErrors }

PlatformLists == SeqsUpTo(NativePlatforms, MaxPlatforms)

\* The platforms of the runs that go on to create contexts: one without a
\* GPU, one whose only GPU is its second device, one with two GPUs, and one
\* whose device listing fails.
TypicalPlatforms ==
    { [devices |-> <<"CPU">>, listing |-> Ok("done")],
      [devices |-> <<"CPU", "GPU">>, listing |-> Ok("done")],
      [devices |-> <<"GPU", "GPU">>, listing |-> Ok("done")],
      [devices |-> <<>>, listing |-> Err(CHOOSE e \in OclErrors : e.api_status # None)] }

TypicalPlatformLists == SeqsUpTo(TypicalPlatforms, MaxPlatforms)

Get(s, i) == IF i + 1 \in DOMAIN s THEN Ok(s[i + 1]) ELSE Err(None)

\* ClgeomError::new(message)
ClgeomError_new(message) == [message |-> message, cause |-> None]

\* format!("{}", ...) pieces are kept as a sequence of tokens.
Contains(message, token) == \E i \in DOMAIN message : message[i] = token

to_clgeom_error_first_line(e, op) ==
    [message |-> <<"OpenCL error while ", op, ".\nOpenCL status: ",
                   IF e.api_status # None THEN e.api_status ELSE "[NONE]",
                   "\nError message: ", "\nCaused by: ">>
                 \o (IF e.display = <<>> THEN <<>> ELSE <<Head(e.display)>>) \o <<"\n">>,
     cause |-> None]

\* error_info_impl!: to_clgeom_error(&self, op)
to_clgeom_error(e, op) ==
    LET status_str == IF e.api_status # None THEN e.api_status ELSE "[NONE]"
        cause_str == IF e.cause # None THEN <<"Caused by:\n", e.cause>> ELSE <<>>
    IN [message |-> <<"OpenCL error while ", op, ".\nOpenCL status: ", status_str,
                      "\nError message: ">> \o cause_str
                    \o <<"\nCaused by: ">> \o e.display \o <<"\n">>,
        cause |-> None]

\* rewrap_ocl_result(r, op)
rewrap_ocl_result(r, op) ==
    IF r.ok THEN Ok(r.val) ELSE Err(to_clgeom_error(r.err, op))

\* The first Err of a sequence of results, or Ok of all the values
\* (Iterator::collect into Result<Vec<_>, _>).
Collect(rs) ==
    IF \E i \in DOMAIN rs : ~rs[i].ok
    THEN LET first == CHOOSE i \in DOMAIN rs :
                 ~rs[i].ok /\ \A j \in DOMAIN rs : ~rs[j].ok => i <= j
         IN Err(rs[first].err)
    ELSE Ok([i \in DOMAIN rs |-> rs[i].val])

RECURSIVE Flatten(_)
Flatten(ss) == IF ss = <<>> THEN <<>> ELSE Head(ss) \o Flatten(Tail(ss))

\* --------------------------------------------------------------- context.rs
\* Device::list(platform, Some(DEVICE_TYPE_GPU)): the handles of the GPU
\* devices of platform p, in the driver's order, or the driver's error.
RECURSIVE FilterGpu(_, _, _)
FilterGpu(p, ds, i) ==
    IF i > Len(ds) THEN <<>>
    ELSE (IF ds[i] = "GPU" THEN <<[platform |-> p, index |-> i]>> ELSE <<>>)
         \o FilterGpu(p, ds, i + 1)

Device_list(plats, p) ==
    IF ~plats[p].listing.ok THEN plats[p].listing
    ELSE Ok(FilterGpu(p, plats[p].devices, 1))

\* mutant: a failed listing yields a platform without devices
unwrap_devices_swallow(plats, p) ==
    IF ~plats[p].listing.ok THEN Ok([devices |-> <<>>, platform |-> p])
    ELSE Ok([devices |-> FilterGpu(p, plats[p].devices, 1), platform |-> p])

unwrap_devices(plats, p) ==
    LET devices == rewrap_ocl_result(Device_list(plats, p), "listing devices")
    IN IF ~devices.ok THEN devices
       ELSE Ok([devices |-> devices.val, platform |-> p])

\* mutant: the platforms listed before the failing one are returned
ContextManager_new_truncated(plats) ==
    LET rs == [p \in 1..Len(plats) |-> unwrap_devices(plats, p)]
        good == { n \in 0..Len(plats) : \A p \in 1..n : rs[p].ok }
        n == CHOOSE k \in good : \A j \in good : j <= k
    IN Ok([ocl_platforms |-> [p \in 1..n |-> rs[p].val]])

\* ContextManager::new(), plats being what Platform::list() and the device
\* listings answer
ContextManager_new(plats) ==
    LET platform_devices == Collect([p \in 1..Len(plats) |-> unwrap_devices(plats, p)])
    IN IF ~platform_devices.ok THEN platform_devices
       ELSE Ok([ocl_platforms |-> platform_devices.val])

\* The handles whose name() the driver may fail to answer.
Handles(mgr) ==
    { [platform |-> mgr.ocl_platforms[p].platform, index |-> 0] : p \in DOMAIN mgr.ocl_platforms }
    \cup UNION { { mgr.ocl_platforms[p].devices[d] : d \in DOMAIN mgr.ocl_platforms[p].devices }
                 : p \in DOMAIN mgr.ocl_platforms }

\* platform.name() / device.name(): the driver's name of a handle; the query
\* of the handle fail is answered by answer (an error, or an unusual name)
Native_name(h, fail, answer) ==
    IF fail = h THEN answer
    ELSE Ok("name-" \o ToString(h.platform) \o "-" \o ToString(h.index))

\* No handle: every name query is answered.
NoHandle == [platform |-> 0, index |-> 0]

\* mutant: every device gets the id 0
create_device_info_zero(platform_id, platform_name, device_id, device, fail, answer) ==
    LET device_name == rewrap_ocl_result(Native_name(device, fail, answer), "getting device name")
    IN IF ~device_name.ok THEN device_name
       ELSE Ok([device_id |-> 0, device_name |-> device_name.val,
                platform_id |-> platform_id, platform_name |-> platform_name])

create_device_info(platform_id, platform_name, device_id, device, fail, answer) ==
    LET device_name == rewrap_ocl_result(Native_name(device, fail, answer), "getting device name")
    IN IF ~device_name.ok THEN device_name
       ELSE Ok([device_id |-> device_id, device_name |-> device_name.val,
                platform_id |-> platform_id, platform_name |-> platform_name])

create_device_infos(platform_id, platform_devices, fail, answer) ==
    LET name == rewrap_ocl_result(
                    Native_name([platform |-> platform_devices.platform, index |-> 0], fail, answer),
                    "creating DeviceInfo instances")
    IN IF ~name.ok THEN name
       ELSE Collect([d \in DOMAIN platform_devices.devices |->
                create_device_info(platform_id, name.val, d - 1,
                                   platform_devices.devices[d], fail, answer)])

\* mutant: platforms without devices are skipped before numbering
list_devices_skip_empty(mgr, fail, answer) ==
    LET kept == SelectSeq(mgr.ocl_platforms, LAMBDA pd : pd.devices # <<>>)
        devices_result == Collect([p \in DOMAIN kept |->
                              create_device_infos(p - 1, kept[p], fail, answer)])
    IN IF ~devices_result.ok THEN devices_result
       ELSE Ok(Flatten(devices_result.val))

\* ContextManager::list_devices(&self)
list_devices(mgr, fail, answer) ==
    LET devices_result == Collect([p \in DOMAIN mgr.ocl_platforms |->
                              create_device_infos(p - 1, mgr.ocl_platforms[p], fail, answer)])
    IN IF ~devices_result.ok THEN devices_result
       ELSE Ok(Flatten(devices_result.val))


\* ----------------------------------------------------------- native objects
\* natives: every native context and queue ever created, with the device it
\* is bound to and how often it was released; it is live while releases = 0.
NewNative(kind, device) == [kind |-> kind, device |-> device, releases |-> 0]

Release(nat, i) == [nat EXCEPT ![i].releases = @ + 1]

Live(nat, kind) == { i \in DOMAIN nat : nat[i].kind = kind /\ nat[i].releases = 0 }

\* mutant: the device index is not checked against the platform's devices
lookup_device_unchecked(mgr, device) ==
    LET ocl_platform == Get(mgr.ocl_platforms, device.platform_id)
    IN IF ~ocl_platform.ok
       THEN Err(ClgeomError_new(<<"Error getting platform ", ToString(device.platform_id)>>))
       ELSE Ok([platform |-> ocl_platform.val.platform, index |-> device.device_id + 1])

\* ContextManager::create_context, the two lookups: ocl_platforms.get(platform_id)
\* and ocl_platform.devices.get(device_id)
lookup_device(mgr, device) ==
    LET ocl_platform == Get(mgr.ocl_platforms, device.platform_id)
    IN IF ~ocl_platform.ok
       THEN Err(ClgeomError_new(<<"Error getting platform ", ToString(device.platform_id)>>))
       ELSE LET ocl_device == Get(ocl_platform.val.devices, device.device_id)
            IN IF ~ocl_device.ok
               THEN Err(ClgeomError_new(<<"getting device ", ToString(device.device_id),
                                          " for platform ", ToString(device.platform_id)>>))
               ELSE Ok(ocl_device.val)

\* mutant: the context is bound to the first device of the platform
create_context_first_device(mgr, device, built, queued, nat) ==
    LET ocl_device == lookup_device(mgr, device)
    IN IF ~ocl_device.ok THEN [result |-> ocl_device, natives |-> nat]
       ELSE LET first == mgr.ocl_platforms[device.platform_id + 1].devices[1]
                context == rewrap_ocl_result(built, "creating context")
                nat1 == Append(nat, NewNative("context", first))
                queue == rewrap_ocl_result(queued, "creating command queue")
            IN IF ~context.ok THEN [result |-> context, natives |-> nat]
               ELSE IF ~queue.ok
               THEN [result |-> queue, natives |-> Release(nat1, Len(nat1))]
               ELSE [result |-> Ok([context |-> Len(nat1), queue |-> Len(nat1) + 1]),
                     natives |-> Append(nat1, NewNative("queue", first))]

\* ContextManager::create_context(&self, device): built and queued are what
\* Context::builder().build() and Queue::new answer. Returns the Result and
\* the native objects afterwards; a context whose queue could not be created
\* is dropped on the way out.
create_context(mgr, device, built, queued, nat) ==
    LET ocl_device == lookup_device(mgr, device)
    IN IF ~ocl_device.ok THEN [result |-> ocl_device, natives |-> nat]
       ELSE LET context == rewrap_ocl_result(built, "creating context")
                nat1 == Append(nat, NewNative("context", ocl_device.val))
                queue == rewrap_ocl_result(queued, "creating command queue")
            IN IF ~context.ok THEN [result |-> context, natives |-> nat]
               ELSE IF ~queue.ok
               THEN [result |-> queue, natives |-> Release(nat1, Len(nat1))]
               ELSE [result |-> Ok([context |-> Len(nat1), queue |-> Len(nat1) + 1]),
                     natives |-> Append(nat1, NewNative("queue", ocl_device.val))]

\* Dropping a ComputeContext releases its context and its queue.
drop_ComputeContext(cxt, nat) == Release(Release(nat, cxt.context), cxt.queue)

\* The DeviceInfo values a caller may pass, its own or another manager's.
DeviceInfos ==
    { [device_id |-> d, device_name |-> "", platform_id |-> p, platform_name |-> ""] :
        d \in 0..MaxDevices, p \in 0..MaxPlatforms }

\* -------------------------------------------------------------------- state
VARIABLES
    mgr,        \* what ContextManager::new() returned, NoManager before the call
    ret,        \* the last call: its name, its arguments and what it returned
    natives,    \* the native contexts and queues created so far
    sessions,   \* the ComputeContext values created, each with its dropped flag
    heap,       \* C interface: the allocations handed out as raw pointers
    cmgrs,      \* C interface: the ClgeomContextManager values returned
    cctxs,      \* C interface: the ClgeomContext values returned
    buffers,    \* device buffers of the session
    queue       \* the kernels enqueued on the session's queue and not yet run

vars == <<mgr, ret, natives, sessions, heap, cmgrs, cctxs, buffers, queue>>

ffiVars == <<heap, cmgrs, cctxs>>
sessionVars == <<buffers, queue>>

NoCall == [op |-> "none"]
NoManager == [ok |-> FALSE]

Init ==
    /\ mgr = NoManager
    /\ ret = NoCall
    /\ natives = <<>>
    /\ sessions = <<>>
    /\ heap = <<>>
    /\ cmgrs = <<>>
    /\ cctxs = <<>>
    /\ buffers = <<>>
    /\ queue = <<>>

\* let mgr = ContextManager::new(), on one of the given installations
NewOn(installations) ==
    /\ mgr = NoManager
    /\ \E plats \in installations :
        LET r == ContextManager_new(plats)
        IN /\ mgr' = r
           /\ ret' = [op |-> "new", platforms |-> plats, result |-> r]
    /\ UNCHANGED <<natives, sessions, ffiVars, sessionVars>>

New == NewOn(PlatformLists)

NewTypical == NewOn(TypicalPlatformLists)

\* mgr.list_devices()
ListDevices ==
    /\ mgr.ok
    /\ \E fail \in {NoHandle} \cup Handles(mgr.val), e \in OclErrors :
        ret' = [op |-> "list_devices", fail |-> fail,
                result |-> list_devices(mgr.val, fail, Err(e))]
    /\ UNCHANGED <<mgr, natives, sessions, ffiVars, sessionVars>>

\* mgr.create_context(&device)
CreateContext ==
    /\ mgr.ok
    /\ Len(sessions) < MaxSessions
    /\ Len(natives) < 2 * MaxSessions
    /\ \E device \in DeviceInfos, out \in CreateOutcomes :
        LET r == create_context(mgr.val, device, out[1], out[2], natives)
        IN /\ natives' = r.natives
           /\ sessions' = (IF r.result.ok
                           THEN Append(sessions, [cxt |-> r.result.val, dropped |-> FALSE])
                           ELSE sessions)
           /\ ret' = [op |-> "create_context", device |-> device, before |-> Len(natives),
                      result |-> r.result]
    /\ UNCHANGED <<mgr, ffiVars, sessionVars>>

\* drop(cxt)
DropContext ==
    /\ \E i \in DOMAIN sessions :
        /\ ~sessions[i].dropped
        /\ natives' = drop_ComputeContext(sessions[i].cxt, natives)
        /\ sessions' = [sessions EXCEPT ![i].dropped = TRUE]
        /\ ret' = [op |-> "drop", session |-> i]
    /\ UNCHANGED <<mgr, ffiVars, sessionVars>>

Next == NewTypical \/ CreateContext \/ DropContext

Spec == Init /\ [][Next]_vars

NextEnum == New \/ ListDevices

SpecEnum == Init /\ [][NextEnum]_vars


\* -------------------------------------------------------------------- ffi.rs
\* heap: the allocations whose raw pointer left Rust's ownership, each with
\* what it holds and how often it was freed. A pointer is the position of its
\* allocation in heap; null() is 0 and the pointer of an empty Vec is dangling.
NullPtr == 0
DanglingPtr == -1

Alloc(kind, content) == [kind |-> kind, content |-> content, frees |-> 0]

Free(hp, ptr) == [hp EXCEPT ![ptr].frees = @ + 1]

\* A name the driver may answer that has a NUL byte inside.
NulName == "na<NUL>me"

\* The answers of a name query other than the usual name.
NameAnswers == { Err(e) : e \in OclErrors } \cup { Ok(NulName) }

\* string_to_c_char(s): CString::new(s) fails on an interior NUL byte;
\* into_raw() hands the allocation out
string_to_c_char(s, hp) ==
    IF s # NulName
    THEN [result |-> Ok(Len(hp) + 1), heap |-> Append(hp, Alloc("CString", s))]
    ELSE [result |-> Err([message |-> <<"Failed to convert &str ", s, " to *c_char">>,
                          cause |-> None]),
          heap |-> hp]

\* create_c_device_info, after the device name was converted
c_device_info_named(device_info, device_name, platform_name) ==
    IF ~platform_name.result.ok THEN platform_name
    ELSE [result |-> Ok([device_id |-> device_info.device_id,
                         device_name |-> device_name.result.val,
                         platform_id |-> device_info.platform_id,
                         platform_name |-> platform_name.result.val]),
          heap |-> platform_name.heap]

c_device_info_name(device_info, device_name) ==
    IF ~device_name.result.ok THEN device_name
    ELSE c_device_info_named(device_info, device_name,
                             string_to_c_char(device_info.platform_name, device_name.heap))

\* create_c_device_info(device_info)
create_c_device_info(device_info, hp) ==
    c_device_info_name(device_info, string_to_c_char(device_info.device_name, hp))

\* device_infos.iter().map(create_c_device_info).collect(), from element i on
RECURSIVE create_c_devices(_, _, _, _)
RECURSIVE collect_c_device(_, _, _, _)
collect_c_device(device_infos, i, list, r) ==
    IF ~r.result.ok THEN r
    ELSE create_c_devices(device_infos, i + 1, Append(list, r.result.val), r.heap)

create_c_devices(device_infos, i, list, hp) ==
    IF i > Len(device_infos) THEN [result |-> Ok(list), heap |-> hp]
    ELSE collect_c_device(device_infos, i, list, create_c_device_info(device_infos[i], hp))

\* create_c_context_manager, its last step: the Vec's parts and the boxed
\* manager go into the ClgeomContextManager and the Vec is forgotten. A Vec
\* without elements owns no allocation.
c_manager_of(manager_ptr, c_devices, hp) ==
    IF Len(c_devices) = 0
    THEN [result |-> Ok([devices |-> DanglingPtr, manager |-> manager_ptr, n_devices |-> 0]),
          heap |-> hp]
    ELSE [result |-> Ok([devices |-> Len(hp) + 1, manager |-> manager_ptr,
                         n_devices |-> Len(c_devices)]),
          heap |-> Append(hp, Alloc("Vec<ClgeomDeviceInfo>", c_devices))]

\* create_c_context_manager, after the conversion of the device infos
c_manager_converted(manager_ptr, c_devices_result) ==
    IF ~c_devices_result.result.ok
    THEN [result |-> Err([message |-> <<"Failed to create device info">>,
                          cause |-> c_devices_result.result.err]),
          heap |-> Free(c_devices_result.heap, manager_ptr)]
    ELSE c_manager_of(manager_ptr, c_devices_result.result.val, c_devices_result.heap)

\* create_c_context_manager, after list_devices
c_manager_listed(device_infos, hp) ==
    IF ~device_infos.ok THEN [result |-> device_infos, heap |-> Free(hp, Len(hp))]
    ELSE c_manager_converted(Len(hp), create_c_devices(device_infos.val, 1, <<>>, hp))

\* create_c_context_manager, after ContextManager::new
c_manager_made(manager, fail, answer, hp) ==
    IF ~manager.ok THEN [result |-> manager, heap |-> hp]
    ELSE c_manager_listed(list_devices(manager.val, fail, answer),
                          Append(hp, Alloc("ContextManager", manager.val)))

\* create_c_context_manager(): the manager is an allocation from its
\* construction on; it is dropped on every early return and boxed at the end.
create_c_context_manager(plats, fail, answer, hp) ==
    c_manager_made(ContextManager_new(plats), fail, answer, hp)

GenericFailure == 999
FailedDeviceCount == 99999

\* clgeom_create_context_manager, the map_or_else over the Result
c_manager_or_else(created) ==
    IF created.result.ok
    THEN [handle |-> created.result.val, error_code |-> 0,
          heap |-> created.heap, inner |-> created.result]
    ELSE [handle |-> [devices |-> NullPtr, manager |-> NullPtr,
                      n_devices |-> FailedDeviceCount],
          error_code |-> GenericFailure,
          heap |-> created.heap, inner |-> created.result]

\* clgeom_create_context_manager(error_code): the value returned and the code
\* written
clgeom_create_context_manager(plats, fail, answer, hp) ==
    c_manager_or_else(create_c_context_manager(plats, fail, answer, hp))

\* What the drop of a handle whose pointers are null may do: Vec::from_raw_parts
\* and Box::from_raw on a null pointer are undefined; the process may go on
\* with nothing freed, or stop before the error code is written.
NullDropOutcomes == {"returned", "aborted"}

\* clgeom_drop_context_manager(mgr, error_code): the Vec rebuilt from the raw
\* parts frees its array and drops its elements, which own nothing (their
\* names are raw pointers); the Box frees the manager. written tells whether
\* the call came to write(error_code, 0).
clgeom_drop_context_manager(c_mgr, outcome, hp) ==
    IF c_mgr.manager = NullPtr
    THEN [heap |-> hp, written |-> outcome = "returned", defined |-> FALSE]
    ELSE [heap |-> Free(IF c_mgr.n_devices = 0 THEN hp ELSE Free(hp, c_mgr.devices),
                        c_mgr.manager),
          written |-> TRUE, defined |-> TRUE]

\* clgeom_create_context, boxing the Result of create_context as it is
c_context_boxed(created, hp) ==
    [handle |-> [context |-> Len(hp) + 1], error_code |-> 0,
     heap |-> Append(hp, Alloc("Box<Result<ComputeContext, ClgeomError>>", created.result)),
     natives |-> created.natives, inner |-> created.result]

\* clgeom_create_context(mgr_ptr, dev_ptr, error_code)
clgeom_create_context(c_mgr, c_dev_info, built, queued, hp, nat) ==
    c_context_boxed(
        create_context(hp[c_mgr.manager].content,
                       [device_id |-> c_dev_info.device_id, device_name |-> "",
                        platform_id |-> c_dev_info.platform_id, platform_name |-> ""],
                       built, queued, nat),
        hp)

\* What freeing a Box<Result<ComputeContext, ClgeomError>> through a
\* Box<c_void>, with the layout of c_void, may do to the allocation.
DeallocOutcomes == {"freed", "corrupted"}

\* clgeom_drop_context(c_context, error_code): Box::from_raw on a *mut c_void
\* runs no destructor of the boxed Result and frees with c_void's layout.
clgeom_drop_context(c_context, outcome, hp, nat) ==
    [heap |-> [Free(hp, c_context.context) EXCEPT ![c_context.context].kind =
                   IF outcome = "freed" THEN @ ELSE "corrupted"],
     natives |-> nat, error_code |-> 0]

\* The handles of an installation's platforms and GPU devices.
InstalledHandles(plats) ==
    { [platform |-> p, index |-> 0] : p \in DOMAIN plats }
    \cup { [platform |-> p, index |-> i] :
             p \in DOMAIN plats, i \in 1..MaxDevices }

ManagerReturned(r) ==
    /\ heap' = r.heap
    /\ cmgrs' = Append(cmgrs, [handle |-> r.handle, error_code |-> r.error_code,
                               dropped |-> FALSE])
    /\ ret' = [op |-> "clgeom_create_context_manager", inner_ok |-> r.inner.ok,
               error_code |-> r.error_code, before |-> Len(heap)]

\* The C caller: clgeom_create_context_manager(&error_code), called once
FfiCreateContextManager ==
    /\ cmgrs = <<>>
    /\ \E plats \in TypicalPlatformLists :
        \E fail \in {NoHandle} \cup InstalledHandles(plats), answer \in NameAnswers :
            ManagerReturned(clgeom_create_context_manager(plats, fail, answer, heap))
    /\ UNCHANGED <<mgr, natives, sessions, cctxs, sessionVars>>

ManagerDropped(i, r) ==
    /\ heap' = r.heap
    /\ cmgrs' = [cmgrs EXCEPT ![i].dropped = TRUE]
    /\ ret' = [op |-> "clgeom_drop_context_manager", handle |-> i,
               error_code |-> IF r.written THEN 0 ELSE cmgrs[i].error_code,
               defined |-> r.defined]

\* clgeom_drop_context_manager(mgr, &error_code), once per handle returned,
\* with the error_code slot the create call wrote
FfiDropContextManager ==
    /\ \E i \in DOMAIN cmgrs, outcome \in NullDropOutcomes :
        /\ ~cmgrs[i].dropped
        /\ ManagerDropped(i, clgeom_drop_context_manager(cmgrs[i].handle, outcome, heap))
    /\ UNCHANGED <<mgr, natives, sessions, cctxs, sessionVars>>

ContextReturned(c_dev_info, r) ==
    /\ heap' = r.heap
    /\ natives' = r.natives
    /\ cctxs' = Append(cctxs, [handle |-> r.handle, dropped |-> FALSE])
    /\ ret' = [op |-> "clgeom_create_context", inner_ok |-> r.inner.ok,
               error_code |-> r.error_code, device |-> c_dev_info]

\* clgeom_create_context(&mgr, &dev, &error_code) on a live manager handle
FfiCreateContext ==
    /\ Len(cctxs) < MaxSessions
    /\ Len(natives) < 2 * MaxSessions
    /\ \E i \in DOMAIN cmgrs :
        /\ cmgrs[i].error_code = 0
        /\ ~cmgrs[i].dropped
        /\ \E c_dev_info \in DeviceInfos, out \in CreateOutcomes :
            ContextReturned(c_dev_info,
                            clgeom_create_context(cmgrs[i].handle, c_dev_info, out[1], out[2],
                                                  heap, natives))
    /\ UNCHANGED <<mgr, sessions, cmgrs, sessionVars>>

\* clgeom_drop_context(context, &error_code), once per handle
FfiDropContext ==
    /\ \E i \in DOMAIN cctxs, outcome \in DeallocOutcomes :
        /\ ~cctxs[i].dropped
        /\ LET r == clgeom_drop_context(cctxs[i].handle, outcome, heap, natives)
           IN /\ heap' = r.heap
              /\ natives' = r.natives
              /\ cctxs' = [cctxs EXCEPT ![i].dropped = TRUE]
              /\ ret' = [op |-> "clgeom_drop_context", handle |-> i,
                         error_code |-> r.error_code]
    /\ UNCHANGED <<mgr, sessions, cmgrs, sessionVars>>

NextFfi ==
    FfiCreateContextManager \/ FfiDropContextManager \/ FfiCreateContext \/ FfiDropContext

SpecFfi == Init /\ [][NextFfi]_vars

\* ---------------------------------------------------------------- compile.rs
\* opencl/fn_inpl.c with its four slots filled in, as tests::get_add spells
\* the text out for add; the text is kept in pieces.
fn_inpl(name, op, T1, T2) ==
    <<"__kernel void ", name, "(__global ", T1, " *A, __global const ", T2, " *B) {\n",
      "    int i = get_global_id(0);\n", "    A[i] ", op, " B[i];\n", "}">>

\* get_source!(fn_name)
get_source(fn_name) ==
    CASE fn_name = "add" -> Ok(fn_inpl("add", "+=", "float4", "float4"))
      [] fn_name = "sub" -> Ok(fn_inpl("sub", "-=", "float4", "float4"))
      [] fn_name = "mul" -> Ok(fn_inpl("mul", "*=", "float4", "float4"))
      [] fn_name = "div" -> Ok(fn_inpl("div", "/=", "float4", "float4"))
      [] OTHER -> Err(ClgeomError_new(<<"Unknown function: ", fn_name>>))

\* What the text of a kernel source declares: its name, the types of its two
\* operands, whether the second one is a buffer, and its operator.
SourceName(source) == source[2]
SourceT1(source) == source[4]
SourceT2(source) == source[6]
SourceSecondIsBuffer(source) == source[5] = " *A, __global const " /\ source[7] = " *B) {\n"
SourceOp(source) == source[10]

\* get_program, after the source lookup: the program is built for target in
\* the context made for it, which is dropped when get_program returns
program_built(source, compiled, nat) ==
    IF ~source.ok THEN [result |-> source, natives |-> Release(nat, Len(nat))]
    ELSE IF ~rewrap_ocl_result(compiled, "building OpenCL program").ok
    THEN [result |-> rewrap_ocl_result(compiled, "building OpenCL program"),
          natives |-> Release(nat, Len(nat))]
    ELSE [result |-> Ok([source |-> source.val, context |-> Len(nat)]),
          natives |-> Release(nat, Len(nat))]

\* get_program(function, target): built is what
\* ContextBuilder::new().devices(target).build() answers, compiled what the
\* program build answers
get_program(function, target, built, compiled, nat) ==
    IF ~rewrap_ocl_result(built, "creating context").ok
    THEN [result |-> rewrap_ocl_result(built, "creating context"), natives |-> nat]
    ELSE program_built(get_source(function), compiled,
                       Append(nat, NewNative("context", target)))

\* -------------------------------------------------- context.rs, ComputeContext
\* A Float4 is four numbers. A number is a fraction <<n, d>> in lowest terms
\* with d > 0; <<0, 0>> stands for the values that are not finite.
RECURSIVE GCD(_, _)
GCD(a, b) == IF b = 0 THEN a ELSE GCD(b, a % b)

Abs(n) == IF n < 0 THEN -n ELSE n
NotFinite == <<0, 0>>
Frac(n, d) ==
    IF d = 0 THEN NotFinite
    ELSE LET g == GCD(Abs(n), Abs(d))
         IN IF d < 0 THEN <<(-n) \div g, (-d) \div g>> ELSE <<n \div g, d \div g>>

\* a op b for one component
Apply(op, a, b) ==
    IF a = NotFinite \/ b = NotFinite THEN NotFinite
    ELSE CASE op = "+=" -> Frac(a[1] * b[2] + b[1] * a[2], a[2] * b[2])
           [] op = "-=" -> Frac(a[1] * b[2] - b[1] * a[2], a[2] * b[2])
           [] op = "*=" -> Frac(a[1] * b[1], a[2] * b[2])
           [] op = "/=" -> Frac(a[1] * b[2], a[2] * b[1])

Float4_new(x, y, z, w) == <<x, y, z, w>>
Apply4(op, a, b) == [c \in 1..4 |-> Apply(op, a[c], b[c])]

\* The host data of tests::translate, data_a and data_b, and a shorter array.
data_a == <<Float4_new(Frac(1, 1), Frac(2, 1), Frac(3, 1), Frac(0, 1)),
            Float4_new(Frac(41, 10), Frac(52, 10), Frac(63, 10), Frac(0, 1))>>
data_b == Float4_new(Frac(1, 10), Frac(2, 10), Frac(3, 10), Frac(0, 1))
HostData == {data_a, <<data_b>>}
Scalars == {data_b}

\* ParamType::Buffer(&buffer) / ParamType::Value(&value)
ParamType_Buffer(b) == [param |-> "Buffer", buffer |-> b]
ParamType_Value(v) == [param |-> "Value", value |-> v]

\* ComputeContext::create_buffer_from(data, allow_write)
create_buffer_from(data, allow_write, allocated, bufs) ==
    IF ~rewrap_ocl_result(allocated, "creating buffer").ok
    THEN [result |-> rewrap_ocl_result(allocated, "creating buffer"), buffers |-> bufs]
    ELSE [result |-> Ok(Len(bufs) + 1),
          buffers |-> Append(bufs, [data |-> data, len |-> Len(data),
                                    flags |-> IF allow_write THEN "READ_WRITE"
                                              ELSE "READ_ONLY"])]

\* Whether the arguments fit the parameters the kernel source declares after
\* the first: one buffer.
ArgsFit(source, args) ==
    /\ Len(args) = 1
    /\ SourceSecondIsBuffer(source) <=> args[1].param = "Buffer"

\* execute_kernel, after get_program: the kernel is built with data and args
\* as its arguments and enqueued on the session's queue
kernel_enqueued(name, program, data, args, size, kernel_built, enqueued, q) ==
    IF ~program.result.ok
    THEN [result |-> program.result, natives |-> program.natives, queue |-> q]
    ELSE IF ~kernel_built.ok \/ ~ArgsFit(program.result.val.source, args)
    THEN [result |-> rewrap_ocl_result(
                         IF kernel_built.ok
                         THEN Err(CHOOSE e \in OclErrors : e.api_status # None)
                         ELSE kernel_built,
                         "building kernel for function: " \o name),
          natives |-> program.natives, queue |-> q]
    ELSE IF ~enqueued.ok
    THEN [result |-> rewrap_ocl_result(enqueued, "running kernel: " \o name),
          natives |-> program.natives, queue |-> q]
    ELSE [result |-> Ok("()"), natives |-> program.natives,
          queue |-> Append(q, [source |-> program.result.val.source, data |-> data,
                               args |-> args, size |-> size])]

\* ComputeContext::execute_kernel(&self, name, data, args, size): out is what
\* the four native calls answer (context build, program build, kernel build,
\* enqueue)
execute_kernel(cxt, name, data, args, size, out, nat, q) ==
    kernel_enqueued(name,
                    get_program(name, nat[cxt.context].device, out[1], out[2], nat),
                    data, args, size, out[3], out[4], q)

\* The device runs one enqueued kernel: A[i] op B[i] for every work item i
RunKernel(k, bufs) ==
    [bufs EXCEPT ![k.data].data =
        [i \in DOMAIN @ |->
            IF i > k.size THEN @[i]
            ELSE Apply4(SourceOp(k.source), @[i],
                        IF k.args[1].param = "Buffer" THEN bufs[k.args[1].buffer].data[i]
                        ELSE k.args[1].value)]]

\* The queue is in order: its kernels run first in, first out.
RECURSIVE RunAll(_, _)
RunAll(q, bufs) == IF q = <<>> THEN bufs ELSE RunAll(Tail(q), RunKernel(Head(q), bufs))

\* ComputeContext::read_buffer(&self, buffer): a blocking read on the in-order
\* queue, which returns after everything enqueued before it has run
read_buffer(buffer, read, q, bufs) ==
    IF ~rewrap_ocl_result(read, "reading result").ok
    THEN [result |-> rewrap_ocl_result(read, "reading result"), queue |-> q, buffers |-> bufs]
    ELSE [result |-> Ok(RunAll(q, bufs)[buffer].data), queue |-> <<>>,
          buffers |-> RunAll(q, bufs)]

\* At most one of the four native calls of execute_kernel fails.
KernelOutcomes ==
    { [i \in 1..4 |-> Ok("done")] }
    \cup { [i \in 1..4 |-> IF i = k THEN Err(e) ELSE Ok("done")] : k \in 1..4, e \in OclErrors }

FunctionNames == {"add", "sub", "mul", "div", "translate", "scale", "rotate"}

MaxBuffers == 1
MaxKernelCalls == 2

\* The installation and the descriptor of tests::translate: one GPU, the
\* first device listed.
TestInstallation == <<[devices |-> <<"GPU">>, listing |-> Ok("done")]>>
TestDevice == [device_id |-> 0, device_name |-> "", platform_id |-> 0, platform_name |-> ""]

\* After mgr.create_context(&device_info).unwrap() of tests::translate
InitSession ==
    /\ mgr = ContextManager_new(TestInstallation)
    /\ ret = NoCall
    /\ natives = create_context(ContextManager_new(TestInstallation).val, TestDevice,
                                Ok("done"), Ok("done"), <<>>).natives
    /\ sessions = <<[cxt |-> create_context(ContextManager_new(TestInstallation).val,
                                            TestDevice, Ok("done"), Ok("done"), <<>>).result.val,
                     dropped |-> FALSE, calls |-> 0]>>
    /\ heap = <<>>
    /\ cmgrs = <<>>
    /\ cctxs = <<>>
    /\ buffers = <<>>
    /\ queue = <<>>

\* get_source!(name)
GetSource ==
    /\ \E name \in FunctionNames :
        ret' = [op |-> "get_source", name |-> name, result |-> get_source(name)]
    /\ UNCHANGED <<mgr, natives, sessions, ffiVars, sessionVars>>

BufferReturned(data, r) ==
    /\ buffers' = r.buffers
    /\ ret' = [op |-> "create_buffer_from", data |-> data, result |-> r.result]

\* cxt.create_buffer_from(data, allow_write)
CreateBufferFrom ==
    /\ Len(buffers) < MaxBuffers
    /\ \E data \in HostData, allow_write \in BOOLEAN, allocated \in NativeOutcomes :
        BufferReturned(data, create_buffer_from(data, allow_write, allocated, buffers))
    /\ UNCHANGED <<mgr, natives, sessions, ffiVars, queue>>

KernelReturned(name, data, args, size, out, r) ==
    /\ natives' = r.natives
    /\ queue' = r.queue
    /\ sessions' = [sessions EXCEPT ![1].calls = @ + 1]
    /\ ret' = [op |-> "execute_kernel", name |-> name, data |-> data, args |-> args,
               native_ok |-> \A k \in DOMAIN out : out[k].ok,
               size |-> size, natives_before |-> Len(natives),
               queue_before |-> Len(queue), contents_before |-> buffers[data].data,
               result |-> r.result]

\* cxt.execute_kernel(name, &buffer, args, size), on a writable buffer and
\* within the lengths of the buffers passed
ExecuteKernel ==
    /\ sessions[1].calls < MaxKernelCalls
    /\ \E name \in FunctionNames, data \in DOMAIN buffers, out \in KernelOutcomes :
        /\ buffers[data].flags = "READ_WRITE"
        /\ \E args \in {<<>>} \cup { <<ParamType_Value(v)>> : v \in Scalars }
                       \cup { <<ParamType_Buffer(b)>> : b \in DOMAIN buffers } :
            \E size \in { n \in 1..buffers[data].len :
                            \A a \in DOMAIN args :
                                args[a].param = "Buffer" => n <= buffers[args[a].buffer].len } :
                KernelReturned(name, data, args, size, out,
                               execute_kernel(sessions[1].cxt, name, data, args, size, out,
                                              natives, queue))
    /\ UNCHANGED <<mgr, ffiVars, buffers>>

\* The device takes the next kernel off the queue and runs it.
DeviceRun ==
    /\ queue # <<>>
    /\ buffers' = RunKernel(Head(queue), buffers)
    /\ queue' = Tail(queue)
    /\ UNCHANGED <<mgr, ret, natives, sessions, ffiVars>>

BufferRead(buffer, r) ==
    /\ buffers' = r.buffers
    /\ queue' = r.queue
    /\ ret' = [op |-> "read_buffer", buffer |-> buffer, result |-> r.result]

\* cxt.read_buffer(&buffer)
ReadBuffer ==
    /\ \E buffer \in DOMAIN buffers, read \in NativeOutcomes :
        BufferRead(buffer, read_buffer(buffer, read, queue, buffers))
    /\ UNCHANGED <<mgr, natives, sessions, ffiVars>>

NextSession == GetSource \/ CreateBufferFrom \/ ExecuteKernel \/ DeviceRun \/ ReadBuffer

SpecSession == InitSession /\ [][NextSession]_vars

\* ------------------------------------------------------------------ mesh.rs
MaxPoints == 6

\* The points meshes are made of: the first point of data_a, and data_b.
MeshPoints == {data_a[1], data_b}

\* TriangleMesh::from_list(points): the mesh is its device buffer, writable
from_list(points, allocated, bufs) == create_buffer_from(points, TRUE, allocated, bufs)

\* TriangleMesh::get_coords(v): components 0, 1, 2 of v, 0.0 where v has none
get_coords(v) == [coord \in 1..3 |-> IF coord \in DOMAIN v THEN v[coord] ELSE Frac(0, 1)]

\* TriangleAccumulator::new(triangle_count)
TriangleAccumulator_new(triangle_count) ==
    [result |-> <<>>,
     tmp_triangle |-> [i \in 1..3 |-> [c \in 1..3 |-> Frac(0, 1)]],
     next_pt_index |-> 0]

tmp_triangle_pushed(self, tmp) ==
    IF self.next_pt_index + 1 = 3
    THEN [result |-> Append(self.result, tmp), tmp_triangle |-> tmp, next_pt_index |-> 0]
    ELSE [result |-> self.result, tmp_triangle |-> tmp,
          next_pt_index |-> self.next_pt_index + 1]

add_point_reversed(self, pt) ==
    tmp_triangle_pushed(self, [self.tmp_triangle EXCEPT
                                   ![3 - self.next_pt_index] = get_coords(pt)])

\* TriangleAccumulator::add_point(self, pt)
add_point(self, pt) ==
    tmp_triangle_pushed(self, [self.tmp_triangle EXCEPT
                                   ![self.next_pt_index + 1] = get_coords(pt)])

\* for pt in buffer_content { acc = acc.add_point(&pt) }
RECURSIVE add_points(_, _)
add_points(acc, buffer_content) ==
    IF buffer_content = <<>> THEN acc
    ELSE add_points(add_point(acc, Head(buffer_content)), Tail(buffer_content))

\* triangles, after the read of the buffer
triangles_reshaped(buffer_content) ==
    IF ~buffer_content.ok THEN buffer_content
    ELSE IF Len(buffer_content.val) % 3 # 0
    THEN Err(ClgeomError_new(<<"Buffer length is not a multiple of 3.">>))
    ELSE Ok(add_points(TriangleAccumulator_new(Len(buffer_content.val)),
                       buffer_content.val).result)

mesh_read(r) ==
    [result |-> triangles_reshaped(r.result), queue |-> r.queue, buffers |-> r.buffers]

\* TriangleMesh::triangles(&self)
triangles(mesh, read, q, bufs) == mesh_read(read_buffer(mesh, read, q, bufs))

\* TriangleMesh::scale(multiplier) / translate(offset): execute_kernel of that
\* name with the one value as argument, over the whole buffer
mesh_transform(name, mesh, value, cxt, out, nat, q, bufs) ==
    execute_kernel(cxt, name, mesh, <<ParamType_Value(value)>>, bufs[mesh].len, out, nat, q)

scale(mesh, multiplier, cxt, out, nat, q, bufs) ==
    mesh_transform("scale", mesh, multiplier, cxt, out, nat, q, bufs)

translate(mesh, offset, cxt, out, nat, q, bufs) ==
    mesh_transform("translate", mesh, offset, cxt, out, nat, q, bufs)

MeshReturned(points, r) ==
    /\ buffers' = r.buffers
    /\ ret' = [op |-> "from_list", points |-> points, result |-> r.result]

\* from_list(points), for the one mesh of the session
MeshFromList ==
    /\ buffers = <<>>
    /\ \E points \in SeqsUpTo(MeshPoints, MaxPoints), allocated \in NativeOutcomes :
        MeshReturned(points, from_list(points, allocated, buffers))
    /\ UNCHANGED <<mgr, natives, sessions, ffiVars, queue>>

TrianglesReturned(mesh, read, r) ==
    /\ buffers' = r.buffers
    /\ queue' = r.queue
    /\ ret' = [op |-> "triangles", mesh |-> mesh, read_ok |-> read.ok,
               points |-> r.buffers[mesh].data, result |-> r.result]

\* mesh.triangles()
MeshTriangles ==
    /\ \E mesh \in DOMAIN buffers, read \in NativeOutcomes :
        TrianglesReturned(mesh, read, triangles(mesh, read, queue, buffers))
    /\ UNCHANGED <<mgr, natives, sessions, ffiVars>>

\* mesh.scale(multiplier)
MeshScale ==
    /\ sessions[1].calls < MaxKernelCalls
    /\ \E mesh \in DOMAIN buffers, multiplier \in Scalars, out \in KernelOutcomes :
        KernelReturned("scale", mesh, <<ParamType_Value(multiplier)>>, buffers[mesh].len, out,
                       scale(mesh, multiplier, sessions[1].cxt, out, natives, queue, buffers))
    /\ UNCHANGED <<mgr, ffiVars, buffers>>

\* mesh.translate(offset)
MeshTranslate ==
    /\ sessions[1].calls < MaxKernelCalls
    /\ \E mesh \in DOMAIN buffers, offset \in Scalars, out \in KernelOutcomes :
        KernelReturned("translate", mesh, <<ParamType_Value(offset)>>, buffers[mesh].len, out,
                       translate(mesh, offset, sessions[1].cxt, out, natives, queue, buffers))
    /\ UNCHANGED <<mgr, ffiVars, buffers>>

NextMesh == MeshFromList \/ MeshTriangles \/ MeshScale \/ MeshTranslate

SpecMesh == InitSession /\ [][NextMesh]_vars

\* ---------------------------------------------------------------- errors.rs
MaxLogLines == 2

\* Lines of diagnostic text a native error may display: those of
\* tests::report_ocl_error, one of them holding a NUL character.
LogLines ==
    { "<kernel>:3:1: error: unknown type name 'invalid'\n",
      "invalid source causes an error\n",
      ";\n<NUL>\n" }

\* The native errors rewrap_ocl_result may be given: with or without an API
\* status, with or without a cause, displaying any diagnostic text.
AnyOclErrors ==
    { [api_status |-> s, cause |-> c, display |-> d] :
        s \in {None, "CL_OUT_OF_RESOURCES", "CL_BUILD_PROGRAM_FAILURE"},
        c \in {None, "ApiFail"},
        d \in SeqsUpTo(LogLines, MaxLogLines) }

\* The operation labels the callers of rewrap_ocl_result pass.
OperationLabels ==
    { "creating context", "building OpenCL program", "creating buffer",
      "building kernel for function: add", "running kernel: add", "reading result",
      "creating command queue", "listing devices", "creating DeviceInfo instances",
      "getting device name" }

\* rewrap_ocl_result(r, op), for any native result and any label
RewrapOclResult ==
    /\ \E r \in {Ok("done")} \cup { Err(e) : e \in AnyOclErrors }, op \in OperationLabels :
        ret' = [op |-> "rewrap_ocl_result", r |-> r, label |-> op,
                result |-> rewrap_ocl_result(r, op)]
    /\ UNCHANGED <<mgr, natives, sessions, ffiVars, sessionVars>>

NextErrors == RewrapOclResult

SpecErrors == Init /\ [][NextErrors]_vars

\* =================================================================== claims
\* ------------------------------------------------------------------------ C1
\* C1: every FFI entry point that can fail writes 0 into error_code only when
\* it succeeded and a nonzero value when it failed: clgeom_create_context
\* writes nonzero whenever ContextManager::create_context returned an error,
\* and clgeom_create_context_manager writes nonzero whenever
\* create_c_context_manager failed.
C1_ErrorCodeTellsFailure ==
    ret.op \in {"clgeom_create_context_manager", "clgeom_create_context"} =>
        (ret.error_code = 0 <=> ret.inner_ok)

\* ------------------------------------------------------------------------ C2
\* The allocations a ClgeomContextManager points to: the boxed manager, the
\* device-info array and the two C strings of each of its entries.
AllocationsOf(c_mgr) ==
    {c_mgr.manager}
    \cup (IF c_mgr.n_devices = 0 THEN {}
          ELSE {c_mgr.devices}
               \cup { heap[c_mgr.devices].content[k].device_name : k \in 1..c_mgr.n_devices }
               \cup { heap[c_mgr.devices].content[k].platform_name : k \in 1..c_mgr.n_devices })

\* C2: after a successful clgeom_create_context_manager and one
\* clgeom_drop_context_manager on its handle, every allocation the create
\* made (the array, each entry's device_name and platform_name, the boxed
\* manager) has been released exactly once.
C2_ManagerDropReleasesEverything ==
    \A i \in DOMAIN cmgrs :
        (cmgrs[i].error_code = 0 /\ cmgrs[i].dropped) =>
            \A a \in AllocationsOf(cmgrs[i].handle) : heap[a].frees = 1

\* ------------------------------------------------------------------------ C3
\* C3: after clgeom_create_context and one clgeom_drop_context on its handle,
\* the native context and queue of the created session are released, and no
\* native object is released twice.
C3_ContextDropReleasesSession ==
    /\ \A n \in DOMAIN natives : natives[n].releases <= 1
    /\ \A i \in DOMAIN cctxs :
        (cctxs[i].dropped /\ heap[cctxs[i].handle.context].content.ok) =>
            LET cxt == heap[cctxs[i].handle.context].content.val
            IN /\ natives[cxt.context].releases = 1
               /\ natives[cxt.queue].releases = 1

\* ------------------------------------------------------------------------ C4
ClosedKernelSet == {"add", "sub", "mul", "div", "translate", "scale"}

OperatorOf(name) ==
    CASE name \in {"add", "translate"} -> "+="
      [] name = "sub" -> "-="
      [] name \in {"mul", "scale"} -> "*="
      [] name = "div" -> "/="

\* C4: kernel source lookup succeeds for every name of {add, sub, mul, div,
\* translate, scale}; the source carries that kernel name and its operator
\* (+=, -=, *=, /=; translate +=, scale *=), a float4 first operand, and as
\* second operand a float4 buffer for add, sub, mul and div and a scalar for
\* translate and scale.
C4_SourceOfEveryKernel ==
    (ret.op = "get_source" /\ ret.name \in ClosedKernelSet) =>
        /\ ret.result.ok
        /\ SourceName(ret.result.val) = ret.name
        /\ SourceOp(ret.result.val) = OperatorOf(ret.name)
        /\ SourceT1(ret.result.val) = "float4"
        /\ ret.name \in {"add", "sub", "mul", "div"} =>
               SourceT2(ret.result.val) = "float4" /\ SourceSecondIsBuffer(ret.result.val)
        /\ ret.name \in {"translate", "scale"} => ~SourceSecondIsBuffer(ret.result.val)

\* ------------------------------------------------------------------------ C5
\* C5: execute_kernel (through get_program) for a name outside {add, sub,
\* mul, div, translate, scale} returns the error "Unknown function: <name>"
\* and no kernel is built or enqueued on the session's queue.
C5_UnknownNameIsRejected ==
    (ret.op = "execute_kernel" /\ ret.name \notin ClosedKernelSet) =>
        /\ ~ret.result.ok
        /\ ret.result.err.message = <<"Unknown function: ", ret.name>>
        /\ Len(queue) <= ret.queue_before

\* ------------------------------------------------------------------------ C6
InRange(m, device) ==
    /\ device.platform_id < Len(m.ocl_platforms)
    /\ device.device_id < Len(m.ocl_platforms[device.platform_id + 1].devices)

\* The device at the position the descriptor names.
DeviceAt(m, device) == m.ocl_platforms[device.platform_id + 1].devices[device.device_id + 1]

IsValidationError(e) ==
    e.message[1] \in {"Error getting platform ", "getting device "}

\* The call created exactly one context and one queue, both bound to the
\* device at the named position, and returned them.
CreatedOneContextAndQueue ==
    /\ ret.result.ok
    /\ Len(natives) = ret.before + 2
    /\ ret.result.val = [context |-> ret.before + 1, queue |-> ret.before + 2]
    /\ natives[ret.before + 1] = NewNative("context", DeviceAt(mgr.val, ret.device))
    /\ natives[ret.before + 2] = NewNative("queue", DeviceAt(mgr.val, ret.device))

RejectedWithoutCreating ==
    /\ ~ret.result.ok
    /\ IsValidationError(ret.result.err)
    /\ Len(natives) = ret.before

\* The native call failed: its error is returned under the label of the call
\* and no context or queue of this call is left live.
NativeCreationFailed ==
    /\ ~ret.result.ok
    /\ \/ /\ Contains(ret.result.err.message, "creating context")
          /\ Len(natives) = ret.before
       \/ /\ Contains(ret.result.err.message, "creating command queue")
          /\ Len(natives) = ret.before + 1
          /\ natives[ret.before + 1].kind = "context"
          /\ natives[ret.before + 1].releases = 1

\* C6 as stated: create_context with an out-of-range platform_id or device_id
\* returns a validation error and creates no context and no queue; with
\* in-range indices it creates exactly one context and one queue bound to the
\* device at that position of the snapshot.
C6_Original ==
    ret.op = "create_context" =>
        IF InRange(mgr.val, ret.device) THEN CreatedOneContextAndQueue
        ELSE RejectedWithoutCreating

\* C6 amended: as above, except that with in-range indices the native context
\* or queue creation may fail; create_context then returns that error under
\* the label "creating context" or "creating command queue" and leaves no
\* live context or queue behind.
C6_CreateContextValidates ==
    ret.op = "create_context" =>
        IF InRange(mgr.val, ret.device)
        THEN CreatedOneContextAndQueue \/ NativeCreationFailed
        ELSE RejectedWithoutCreating

\* C6 witness: an in-range descriptor whose position in the filtered list is
\* not the device's position in the driver's list, and a created session.
C6_Witness ==
    /\ ret.op = "create_context"
    /\ InRange(mgr.val, ret.device)
    /\ ret.result.ok
    /\ DeviceAt(mgr.val, ret.device).index # ret.device.device_id + 1

\* ------------------------------------------------------------------------ C7
RECURSIVE Offset(_, _)
\* The number of devices of the platforms before position p (1-based).
Offset(m, p) == IF p <= 1 THEN 0 ELSE Offset(m, p - 1) + Len(m.ocl_platforms[p - 1].devices)

\* list holds one DeviceInfo per device of the snapshot, in snapshot order,
\* numbered by position, named after the device at that position, and each
\* one is found again by create_context's lookups.
ListMatchesSnapshot(m, list) ==
    /\ Len(list) = Offset(m, Len(m.ocl_platforms) + 1)
    /\ \A p \in DOMAIN m.ocl_platforms : \A d \in DOMAIN m.ocl_platforms[p].devices :
        LET info == list[Offset(m, p) + d]
            device == m.ocl_platforms[p].devices[d]
        IN /\ info.platform_id = p - 1
           /\ info.device_id = d - 1
           /\ info.device_name = Native_name(device, NoHandle, Ok("")).val
           /\ lookup_device(m, info) = Ok(device)

\* C7 as stated: for any snapshot, list_devices returns exactly one DeviceInfo
\* per filtered device, in snapshot order, numbered by position; platforms
\* without devices keep their slot; every descriptor is accepted by
\* create_context of the same manager.
C7_Original ==
    ret.op = "list_devices" =>
        ret.result.ok /\ ListMatchesSnapshot(mgr.val, ret.result.val)

\* C7 amended: as above whenever the driver answers every name query; when
\* the name query of a platform or device of the snapshot fails, list_devices
\* returns that error, labelled "creating DeviceInfo instances" or "getting
\* device name", and no list.
C7_ListDevicesMatchesSnapshot ==
    ret.op = "list_devices" =>
        IF ret.fail = NoHandle
        THEN ret.result.ok /\ ListMatchesSnapshot(mgr.val, ret.result.val)
        ELSE /\ ~ret.result.ok
             /\ Contains(ret.result.err.message,
                         IF ret.fail.index = 0 THEN "creating DeviceInfo instances"
                         ELSE "getting device name")

\* C7 witness: a platform without matching devices before one with devices,
\* listed.
C7_Witness ==
    /\ ret.op = "list_devices"
    /\ ret.result.ok
    /\ \E p, q \in DOMAIN mgr.val.ocl_platforms :
        /\ p < q
        /\ mgr.val.ocl_platforms[p].devices = <<>>
        /\ mgr.val.ocl_platforms[q].devices # <<>>

\* ------------------------------------------------------------------------ C8
\* C8: ContextManager::new returns an error when the underlying API reports
\* zero platforms; it returns a manager only when at least one platform was
\* enumerated.
C8_ZeroPlatformsIsAnError ==
    ret.op = "new" =>
        /\ Len(ret.platforms) = 0 => ~ret.result.ok
        /\ ret.result.ok => Len(ret.platforms) >= 1

\* ------------------------------------------------------------------------ C9
\* C9: if device listing fails for any one platform during new, new returns
\* an error labelled "listing devices" and no manager; a snapshot of the
\* other platforms is never returned.
C9_ListingFailureFailsNew ==
    (ret.op = "new" /\ \E p \in DOMAIN ret.platforms : ~ret.platforms[p].listing.ok) =>
        /\ ~ret.result.ok
        /\ ~mgr.ok
        /\ Contains(ret.result.err.message, "listing devices")

\* C9 witness: the second platform's listing fails after the first one's
\* succeeded.
C9_Witness ==
    /\ ret.op = "new"
    /\ Len(ret.platforms) >= 2
    /\ ret.platforms[1].listing.ok
    /\ ~ret.platforms[2].listing.ok
    /\ ~ret.result.ok


\* ----------------------------------------------------------------------- C10
\* C10: on one session, execute_kernel("translate", buffer, [scalar], n)
\* followed by read_buffer(buffer) returns, for every index i < n, the value
\* the buffer held at i plus the scalar. Stated for a call made with an empty
\* queue whose native calls all succeed, and a read that succeeds.
C10_ReadSeesTranslate ==
    [][(/\ ret.op = "execute_kernel"
        /\ ret.name = "translate"
        /\ ret.native_ok
        /\ ret.queue_before = 0
        /\ Len(ret.args) = 1
        /\ ret.args[1].param = "Value"
        /\ ret'.op = "read_buffer"
        /\ ret'.buffer = ret.data
        /\ ret'.result.ok)
       => \A i \in 1..ret.size :
            ret'.result.val[i] = Apply4("+=", ret.contents_before[i], ret.args[1].value)]_vars

\* ----------------------------------------------------------------------- C11
\* The reshaping of n points: an error "Buffer length is not a multiple of 3."
\* when n mod 3 # 0, else n/3 triangles, triangle k holding the first three
\* components of the points 3k, 3k+1, 3k+2 in that order.
ReshapedAsClaimed(points, result) ==
    IF Len(points) % 3 # 0
    THEN /\ ~result.ok
         /\ result.err.message = <<"Buffer length is not a multiple of 3.">>
    ELSE /\ result.ok
         /\ Len(result.val) = Len(points) \div 3
         /\ \A k \in 1..(Len(points) \div 3), j \in 1..3, c \in 1..3 :
                result.val[k][j][c] = points[3 * (k - 1) + j][c]

\* C11 as stated: TriangleMesh::triangles on a buffer of n points returns the
\* error when n mod 3 # 0 and the n/3 ordered triangles when n mod 3 = 0.
C11_Original ==
    ret.op = "triangles" => ReshapedAsClaimed(ret.points, ret.result)

\* C11: when the read of the buffer succeeds, triangles returns the error
\* "Buffer length is not a multiple of 3." for n mod 3 # 0 and exactly n/3
\* triangles for n mod 3 = 0, triangle k holding the first three components of
\* points 3k, 3k+1, 3k+2 in that order; when the read fails it returns that
\* error, labelled "reading result", whatever n is.
C11_TrianglesReshapesWhatItRead ==
    ret.op = "triangles" =>
        IF ret.read_ok THEN ReshapedAsClaimed(ret.points, ret.result)
        ELSE ~ret.result.ok /\ Contains(ret.result.err.message, "reading result")

C11_Witness ==
    /\ ret.op = "triangles"
    /\ ret.result.ok
    /\ Len(ret.result.val) = 2
    /\ ret.result.val[1] # ret.result.val[2]
    /\ ret.result.val[2][1] # ret.result.val[2][3]

\* ----------------------------------------------------------------------- C12
\* The whole of text, every line in order, is a part of message.
HoldsWholeText(message, text) ==
    \E at \in 0..(Len(message) - Len(text)) :
        SubSeq(message, at + 1, at + Len(text)) = text

\* C12: when a native OpenCL call fails, rewrap_ocl_result returns a
\* ClgeomError (never Ok) whose message contains the operation label passed
\* by the caller, the native status code, or "[NONE]" when the native error
\* carries no status, and the complete, untruncated diagnostic text of the
\* native error.
C12_RewrapKeepsLabelStatusAndText ==
    (ret.op = "rewrap_ocl_result" /\ ~ret.r.ok) =>
        /\ ~ret.result.ok
        /\ Contains(ret.result.err.message, ret.label)
        /\ Contains(ret.result.err.message,
                    IF ret.r.err.api_status # None THEN ret.r.err.api_status ELSE "[NONE]")
        /\ HoldsWholeText(ret.result.err.message, ret.r.err.display)

C12_Witness ==
    /\ ret.op = "rewrap_ocl_result"
    /\ ~ret.r.ok
    /\ ret.label = "building OpenCL program"
    /\ ret.r.err.api_status = None
    /\ Len(ret.r.err.display) >= 2
    /\ ret.r.err.display[1] # ret.r.err.display[2]

\* ----------------------------------------------------------------------- C13
\* C13: get_program compiles the named kernel inside the session's existing
\* context: an execute_kernel call creates no native context besides the
\* session's own, and after it the number of live native contexts equals the
\* number of live sessions.
C13_NoContextBesidesTheSessions ==
    ret.op = "execute_kernel" =>
        /\ \A i \in (ret.natives_before + 1)..Len(natives) : natives[i].kind # "context"
        /\ Cardinality(Live(natives, "context"))
               = Cardinality({ i \in DOMAIN sessions : ~sessions[i].dropped })

\* ----------------------------------------------------------------------- C14
\* The number of ClgeomDeviceInfo entries allocated behind devices: none when
\* devices is null or the pointer of an empty Vec.
EntriesBehind(c_mgr) ==
    IF c_mgr.devices \in DOMAIN heap THEN Len(heap[c_mgr.devices].content) ELSE 0

\* C14: every ClgeomContextManager returned by clgeom_create_context_manager,
\* on success and on failure alike, has n_devices equal to the number of
\* entries allocated behind devices (0 when devices is null), and
\* clgeom_drop_context_manager on any returned handle reclaims only memory
\* the create call allocated.
C14_CountIsTheArraysLength ==
    /\ \A i \in DOMAIN cmgrs : cmgrs[i].handle.n_devices = EntriesBehind(cmgrs[i].handle)
    /\ ret.op = "clgeom_drop_context_manager" => ret.defined

\* ----------------------------------------------------------------------- C15
\* C15: when create_c_context_manager fails, also partway through the
\* conversion of the names, it leaves no allocation outstanding: every C
\* string string_to_c_char handed out for earlier names and the
\* ContextManager built at the start have been released, once, when
\* clgeom_create_context_manager returns the failure.
C15_FailedCreateLeavesNothing ==
    (ret.op = "clgeom_create_context_manager" /\ ~ret.inner_ok) =>
        \A a \in (ret.before + 1)..Len(heap) : heap[a].frees = 1

====
